---- MODULE Spec2Model ----
(***************************************************************************)
(* The persistence layer of the rideshare application (src/model.py):     *)
(* the tables users, trips and user_trips with their auto-assigned        *)
(* primary keys, NOT NULL columns and foreign keys, the serialisers       *)
(* Trip.to_json and UserTrip.to_json, the ordered back-collections and    *)
(* the seeder example_data.                                               *)
(*                                                                         *)
(* A row is a record.  A table is the set of its rows.  A create, update  *)
(* or delete is db.session.add/delete followed by db.session.commit, as   *)
(* example_data does it; a commit that violates a constraint raises and   *)
(* the transaction is rolled back (the caller rolls the session back      *)
(* before it goes on), while the values drawn from the identifier         *)
(* sequences stay drawn.                                                  *)
(***************************************************************************)
EXTENDS Integers, Sequences, FiniteSets, TLC

\* Bound of the model: the number of values drawn from the identifier sequences.
MaxInserts == 4

VARIABLES users, trips, user_trips, nextUserId, nextTripId, nextUserTripId, out

vars == <<users, trips, user_trips, nextUserId, nextTripId, nextUserTripId, out>>

\* None in Python, NULL in the database.
NULL == "NULL"

\* The values the three sequences have handed out so far.
Drawn == (nextUserId - 1) + (nextTripId - 1) + (nextUserTripId - 1)

(***************************************************************************)
(* Values as the caller passes them.  A constructor argument is either a   *)
(* Python int, a Python date or a Python str (a sequence of characters).   *)
(***************************************************************************)
PyInt(n) == [repr |-> "int", value |-> n]
PyStr(s) == [repr |-> "text", value |-> s]
PyDate(y, m, d) == [repr |-> "date", value |-> [year |-> y, month |-> m, day |-> d]]

DigitChars == <<"0", "1", "2", "3", "4", "5", "6", "7", "8", "9">>

DigitVal(c) == (CHOOSE i \in 1..10 : DigitChars[i] = c) - 1

\* The integer a string of decimal digits denotes (the database's integer input).
RECURSIVE Num(_)
Num(s) == IF s = <<>> THEN 0 ELSE 10 * Num(SubSeq(s, 1, Len(s) - 1)) + DigitVal(s[Len(s)])

\* An Integer column: an int is stored as it is, a str is read as a number.
int4in(v) == IF v.repr = "text" THEN Num(v.value) ELSE v.value

\* A Date column: a date is stored as it is, a str is read month-day-year.
date_in(v) ==
  IF v.repr = "text"
  THEN [year |-> Num(SubSeq(v.value, 7, 10)),
        month |-> Num(SubSeq(v.value, 1, 2)),
        day |-> Num(SubSeq(v.value, 4, 5))]
  ELSE v.value

\* n written with at least w decimal digits, zero-padded on the left.
RECURSIVE Pad(_, _)
Pad(n, w) ==
  IF w <= 1 /\ n < 10 THEN <<DigitChars[n + 1]>>
  ELSE Pad(n \div 10, w - 1) \o <<DigitChars[(n % 10) + 1]>>

\* date.strftime('%Y-%m-%d'), for the years of four digits
strftime(d) == Pad(d.year, 4) \o <<"-">> \o Pad(d.month, 2) \o <<"-">> \o Pad(d.day, 2)

(***************************************************************************)
(* User                                                                    *)
(***************************************************************************)
JoProfile ==
  [fname |-> "Jo", lname |-> "Bama", email |-> "jo@bama.com",
   user_bio |-> "Friendly person", user_gender |-> "Female",
   user_profile_img |-> "https://robohash.org/enimsolutaqui.png?size=50x50&set=set1",
   user_social_media |-> "twitter.com"]

AlProfile ==
  [fname |-> "Al", lname |-> "Cole", email |-> "jo@bama.com",
   user_bio |-> "Quiet person", user_gender |-> "Male",
   user_profile_img |-> "https://robohash.org/al.png",
   user_social_media |-> "example.org"]

Profiles == {JoProfile, AlProfile}

User(uid, p) ==
  [user_id |-> uid, email |-> p.email, fname |-> p.fname, lname |-> p.lname,
   user_gender |-> p.user_gender, user_bio |-> p.user_bio,
   user_profile_img |-> p.user_profile_img,
   user_social_media |-> p.user_social_media]

UserIds(tbl) == {u.user_id : u \in tbl}
TripIds(tbl) == {t.trip_id : t \in tbl}

(***************************************************************************)
(* Trip                                                                    *)
(***************************************************************************)
\* The arguments example_data passes to Trip(...): no time is given.
SeedTrip ==
  [date_of_trip |-> PyStr(<<"1", "1", "-", "1", "3", "-", "2", "0", "1", "8">>),
   time |-> NULL,
   max_passengers |-> PyStr(<<"3">>),
   num_passengers |-> PyStr(<<"1">>),
   willing_to_stop |-> FALSE,
   trip_cost |-> PyStr(<<"1", "0">>),
   user_id |-> PyStr(<<"1">>),
   origin |-> "San Francisco",
   destination |-> "Los Angeles",
   distance_meters |-> PyStr(<<"1", "5", "4", "2", "2">>),
   display_distance |-> "13 mi"]

\* Arguments a caller passes: the seed's with a time, and a second offer.
TripInputs ==
  {[SeedTrip EXCEPT !.time = "08:00"],
   [date_of_trip |-> PyDate(2019, 1, 5),
    time |-> "17:30",
    max_passengers |-> PyInt(1),
    num_passengers |-> PyInt(0),
    willing_to_stop |-> TRUE,
    trip_cost |-> PyInt(25),
    user_id |-> PyInt(1),
    origin |-> "Oakland",
    destination |-> "Reno",
    distance_meters |-> PyInt(350000),
    display_distance |-> "217 mi"]}

\* The values an explicit caller writes to num_passengers.
PassengerCounts == {2}

\* The row the database stores for a Trip object that got identifier tid.
TripRow(obj, tid) ==
  [trip_id |-> tid,
   date_of_trip |-> date_in(obj.date_of_trip),
   time |-> obj.time,
   max_passengers |-> int4in(obj.max_passengers),
   num_passengers |-> int4in(obj.num_passengers),
   willing_to_stop |-> obj.willing_to_stop,
   trip_cost |-> int4in(obj.trip_cost),
   user_id |-> int4in(obj.user_id),
   origin |-> obj.origin,
   destination |-> obj.destination,
   distance_meters |-> int4in(obj.distance_meters),
   display_distance |-> obj.display_distance]

\* The insert of a Trip passes the NOT NULL columns and the foreign key to users.
TripInsertOK(obj, usrs) ==
  /\ obj.time # NULL
  /\ int4in(obj.user_id) \in UserIds(usrs)

\* The insert of a UserTrip passes its two foreign keys.
UserTripInsertOK(tid, uid) == tid \in TripIds(trips) /\ uid \in UserIds(users)

\* db.session.commit(): all of the transaction is stored, or none of it.
Commit(ok, before, after) == IF ok THEN after ELSE before

(***************************************************************************)
(* Relationships                                                           *)
(***************************************************************************)
RECURSIVE OrderByDesc(_, _)
OrderByDesc(rows, key) ==
  IF rows = {} THEN <<>>
  ELSE LET m == CHOOSE r \in rows : \A q \in rows : q[key] <= r[key]
       IN <<m>> \o OrderByDesc(rows \ {m}, key)

\* order_by: the rows in ascending order of the column key.
RECURSIVE OrderBy(_, _)
OrderBy(rows, key) ==
  IF rows = {} THEN <<>>
  ELSE LET m == CHOOSE r \in rows : \A q \in rows : q[key] >= r[key]
       IN <<m>> \o OrderBy(rows \ {m}, key)

\* User.trips, User.user_trips, Trip.user_trips
User_trips(uid) == OrderBy({t \in trips : t.user_id = uid}, "trip_id")
User_user_trips(uid) == OrderBy({ut \in user_trips : ut.user_id = uid}, "user_trip_id")
Trip_user_trips(tid) == OrderBy({ut \in user_trips : ut.trip_id = tid}, "user_trip_id")

\* Trip.user and UserTrip.user: the rows the foreign key selects (none: None).
UserOf(uid) == {u \in users : u.user_id = uid}
\* UserTrip.trip
TripOf(tid) == {t \in trips : t.trip_id = tid}

\* A Trip read back from its row: the date is a date, the driver is loaded.
LoadTrip(t) ==
  [trip_id |-> t.trip_id,
   date_of_trip |-> [repr |-> "date", value |-> t.date_of_trip],
   time |-> t.time,
   max_passengers |-> t.max_passengers,
   num_passengers |-> t.num_passengers,
   willing_to_stop |-> t.willing_to_stop,
   trip_cost |-> t.trip_cost,
   user_id |-> t.user_id,
   origin |-> t.origin,
   destination |-> t.destination,
   distance_meters |-> t.distance_meters,
   display_distance |-> t.display_distance,
   user |-> UserOf(t.user_id)]

\* A Trip as constructed and not yet added: it holds what the caller passed.
NewTrip(inp, rel) ==
  [trip_id |-> NULL,
   date_of_trip |-> inp.date_of_trip,
   time |-> inp.time,
   max_passengers |-> inp.max_passengers,
   num_passengers |-> inp.num_passengers,
   willing_to_stop |-> inp.willing_to_stop,
   trip_cost |-> inp.trip_cost,
   user_id |-> inp.user_id,
   origin |-> inp.origin,
   destination |-> inp.destination,
   distance_meters |-> inp.distance_meters,
   display_distance |-> inp.display_distance,
   user |-> rel]

\* A UserTrip read back from its row, with its passenger and its trip loaded.
LoadUserTrip(ut) ==
  [user_trip_id |-> ut.user_trip_id,
   trip_id |-> ut.trip_id,
   user_id |-> ut.user_id,
   user |-> UserOf(ut.user_id),
   trip |-> {LoadTrip(t) : t \in TripOf(ut.trip_id)}]

(***************************************************************************)
(* Serialisation                                                           *)
(***************************************************************************)
AttributeError == [raised |-> "AttributeError"]

The(S) == CHOOSE x \in S : TRUE

Trip_to_json_counts_swapped(self) ==
  IF self.date_of_trip.repr # "date" \/ self.user = {} THEN AttributeError
  ELSE [raised |-> "none",
        tripId |-> self.trip_id,
        dateOfTrip |-> strftime(self.date_of_trip.value),
        maxPassengers |-> self.num_passengers,
        numPassengers |-> self.max_passengers,
        willingToStop |-> self.willing_to_stop,
        tripCost |-> self.trip_cost,
        origin |-> self.origin,
        time |-> self.time,
        destination |-> self.destination,
        distanceMeters |-> self.distance_meters,
        displayDistance |-> self.display_distance,
        userAsDriver |-> self.user_id,
        userFirstName |-> The(self.user).fname,
        userProfileImg |-> The(self.user).user_profile_img]

\* Trip.to_json: a str has no strftime, and None (no driver loaded) no fname.
Trip_to_json(self) ==
  IF self.date_of_trip.repr # "date" THEN AttributeError
  ELSE IF self.user = {} THEN AttributeError
  ELSE [raised |-> "none",
        tripId |-> self.trip_id,
        dateOfTrip |-> strftime(self.date_of_trip.value),
        maxPassengers |-> self.max_passengers,
        numPassengers |-> self.num_passengers,
        willingToStop |-> self.willing_to_stop,
        tripCost |-> self.trip_cost,
        origin |-> self.origin,
        time |-> self.time,
        destination |-> self.destination,
        distanceMeters |-> self.distance_meters,
        displayDistance |-> self.display_distance,
        userAsDriver |-> self.user_id,
        userFirstName |-> The(self.user).fname,
        userProfileImg |-> The(self.user).user_profile_img]

UserTrip_to_json_swapped(self) ==
  IF self.trip = {} \/ self.user = {} THEN AttributeError
  ELSE LET trip == The(self.trip) IN
    IF trip.date_of_trip.repr # "date" \/ trip.user = {} THEN AttributeError
    ELSE [raised |-> "none",
          userTripId |-> self.user_trip_id,
          tripId |-> self.trip_id,
          userId |-> self.user_id,
          dateOfTrip |-> strftime(trip.date_of_trip.value),
          userFirstName |-> The(trip.user).fname,
          userProfileImg |-> The(trip.user).user_profile_img,
          userBio |-> The(trip.user).user_bio,
          origin |-> trip.origin,
          time |-> trip.time,
          destination |-> trip.destination,
          displayDistance |-> trip.display_distance,
          distanceMeters |-> trip.distance_meters,
          numPassengers |-> trip.num_passengers,
          driverFirstName |-> The(self.user).fname,
          driverProfileImg |-> The(self.user).user_profile_img,
          driverBio |-> The(self.user).user_bio]

\* UserTrip.to_json
UserTrip_to_json(self) ==
  IF self.trip = {} THEN AttributeError
  ELSE LET trip == The(self.trip) IN
    IF trip.date_of_trip.repr # "date" THEN AttributeError
    ELSE IF self.user = {} \/ trip.user = {} THEN AttributeError
    ELSE [raised |-> "none",
          userTripId |-> self.user_trip_id,
          tripId |-> self.trip_id,
          userId |-> self.user_id,
          dateOfTrip |-> strftime(trip.date_of_trip.value),
          userFirstName |-> The(self.user).fname,
          userProfileImg |-> The(self.user).user_profile_img,
          userBio |-> The(self.user).user_bio,
          origin |-> trip.origin,
          time |-> trip.time,
          destination |-> trip.destination,
          displayDistance |-> trip.display_distance,
          distanceMeters |-> trip.distance_meters,
          numPassengers |-> trip.num_passengers,
          driverFirstName |-> The(trip.user).fname,
          driverProfileImg |-> The(trip.user).user_profile_img,
          driverBio |-> The(trip.user).user_bio]

(***************************************************************************)
(* The state after db.create_all(): empty tables, fresh sequences.  out is *)
(* what the last call returned or raised; a call that returns nothing of   *)
(* interest leaves [kind |-> "none"].                                      *)
(***************************************************************************)
NoOut == [kind |-> "none"]

Init ==
  /\ users = {}
  /\ trips = {}
  /\ user_trips = {}
  /\ nextUserId = 1
  /\ nextTripId = 1
  /\ nextUserTripId = 1
  /\ out = NoOut

(***************************************************************************)
(* Users                                                                   *)
(***************************************************************************)
\* db.session.add(User(...)); db.session.commit()
CreateUser(p) ==
  /\ Drawn < MaxInserts
  /\ users' = users \cup {User(nextUserId, p)}
  /\ nextUserId' = nextUserId + 1
  /\ out' = NoOut
  /\ UNCHANGED <<trips, user_trips, nextTripId, nextUserTripId>>

EditProfileReinsert(u, p) ==
  /\ u \in users
  /\ Drawn < MaxInserts
  /\ User(u.user_id, p) # u
  /\ users' = (users \ {u}) \cup {User(nextUserId, p)}
  /\ nextUserId' = nextUserId + 1
  /\ out' = [kind |-> "update", table |-> "users", id |-> u.user_id]
  /\ UNCHANGED <<trips, user_trips, nextTripId, nextUserTripId>>

\* A profile edit: the columns other than user_id are assigned and committed.
EditProfile(u, p) ==
  /\ u \in users
  /\ User(u.user_id, p) # u
  /\ users' = (users \ {u}) \cup {User(u.user_id, p)}
  /\ out' = [kind |-> "update", table |-> "users", id |-> u.user_id]
  /\ UNCHANGED <<trips, user_trips, nextUserId, nextTripId, nextUserTripId>>

UserReferencedByTripOnly(uid) == \E t \in trips : t.user_id = uid

\* Some row's foreign key to users.user_id holds uid.
UserReferenced(uid) ==
  \/ \E t \in trips : t.user_id = uid
  \/ \E ut \in user_trips : ut.user_id = uid

\* Some row's foreign key to trips.trip_id holds tid.
TripReferenced(tid) == \E ut \in user_trips : ut.trip_id = tid

Deleted(tbl, id, ok) ==
  [kind |-> "delete", table |-> tbl, id |-> id,
   status |-> IF ok THEN "ok" ELSE "IntegrityError"]

\* db.session.delete(user); db.session.commit(): no cascade is declared, so
\* the delete of a User that rows still reference violates their constraint.
DeleteUser(u) ==
  /\ u \in users
  /\ users' = Commit(~UserReferenced(u.user_id), users, users \ {u})
  /\ out' = Deleted("users", u.user_id, ~UserReferenced(u.user_id))
  /\ UNCHANGED <<trips, user_trips, nextUserId, nextTripId, nextUserTripId>>

(***************************************************************************)
(* Trips                                                                   *)
(***************************************************************************)
\* db.session.add(Trip(..., user_id=driver)); db.session.commit()
CreateTrip(inp, driver) ==
  /\ Drawn < MaxInserts
  /\ LET obj == [inp EXCEPT !.user_id = PyInt(driver)]
         ok == TripInsertOK(obj, users)
     IN /\ trips' = Commit(ok, trips, trips \cup {TripRow(obj, nextTripId)})
        /\ out' = IF ok THEN NoOut
                  ELSE [kind |-> "insert", table |-> "trips", status |-> "IntegrityError"]
  /\ nextTripId' = nextTripId + 1
  /\ UNCHANGED <<users, user_trips, nextUserId, nextUserTripId>>

\* An explicit update of a Trip's passenger count: trip.num_passengers = n; commit
UpdateTrip(t, n) ==
  /\ t \in trips
  /\ t.num_passengers # n
  /\ trips' = (trips \ {t}) \cup {[t EXCEPT !.num_passengers = n]}
  /\ out' = NoOut
  /\ UNCHANGED <<users, user_trips, nextUserId, nextTripId, nextUserTripId>>

\* db.session.delete(trip); db.session.commit()
DeleteTrip(t) ==
  /\ t \in trips
  /\ trips' = Commit(~TripReferenced(t.trip_id), trips, trips \ {t})
  /\ out' = Deleted("trips", t.trip_id, ~TripReferenced(t.trip_id))
  /\ UNCHANGED <<users, user_trips, nextUserId, nextTripId, nextUserTripId>>

(***************************************************************************)
(* UserTrips                                                               *)
(***************************************************************************)
UserTrip(utid, tid, uid) == [user_trip_id |-> utid, trip_id |-> tid, user_id |-> uid]

CreateUserTripCounting(tid, uid) ==
  /\ Drawn < MaxInserts
  /\ LET ok == UserTripInsertOK(tid, uid)
     IN /\ user_trips' =
             Commit(ok, user_trips, user_trips \cup {UserTrip(nextUserTripId, tid, uid)})
        /\ trips' =
             Commit(ok, trips,
                    {IF t.trip_id = tid
                     THEN [t EXCEPT !.num_passengers = t.num_passengers + 1]
                     ELSE t : t \in trips})
        /\ out' = IF ok THEN NoOut
                  ELSE [kind |-> "insert", table |-> "user_trips",
                        status |-> "IntegrityError"]
  /\ nextUserTripId' = nextUserTripId + 1
  /\ UNCHANGED <<users, nextUserId, nextTripId>>

\* db.session.add(UserTrip(trip_id=tid, user_id=uid)); db.session.commit():
\* the passenger uid joins the trip tid.  No pair is refused as a duplicate.
CreateUserTrip(tid, uid) ==
  /\ Drawn < MaxInserts
  /\ LET ok == UserTripInsertOK(tid, uid)
     IN /\ user_trips' =
             Commit(ok, user_trips, user_trips \cup {UserTrip(nextUserTripId, tid, uid)})
        /\ out' = IF ok THEN NoOut
                  ELSE [kind |-> "insert", table |-> "user_trips",
                        status |-> "IntegrityError"]
  /\ nextUserTripId' = nextUserTripId + 1
  /\ UNCHANGED <<users, trips, nextUserId, nextTripId>>

\* db.session.delete(user_trip); db.session.commit()
DeleteUserTrip(ut) ==
  /\ ut \in user_trips
  /\ user_trips' = user_trips \ {ut}
  /\ out' = Deleted("user_trips", ut.user_trip_id, TRUE)
  /\ UNCHANGED <<users, trips, nextUserId, nextTripId, nextUserTripId>>

(***************************************************************************)
(* example_data                                                            *)
(***************************************************************************)
\* One flush inserts the User, then the Trip; the commit stores both or raises.
\* out keeps which call in a row this was and the row counts before the first.
example_data ==
  /\ Drawn + 2 <= MaxInserts
  /\ LET user == User(nextUserId, JoProfile)
         trip == SeedTrip
         ok == TripInsertOK(trip, users \cup {user})
         again == out.kind = "example_data" /\ out.run = 1
     IN /\ users' = Commit(ok, users, users \cup {user})
        /\ trips' = Commit(ok, trips, trips \cup {TripRow(trip, nextTripId)})
        /\ out' = [kind |-> "example_data",
                   status |-> IF ok THEN "ok" ELSE "IntegrityError",
                   run |-> IF again THEN 2 ELSE 1,
                   users0 |-> IF again THEN out.users0 ELSE Cardinality(users),
                   trips0 |-> IF again THEN out.trips0 ELSE Cardinality(trips),
                   ids0 |-> IF again THEN out.ids0 ELSE UserIds(users),
                   tids0 |-> IF again THEN out.tids0 ELSE TripIds(trips),
                   user_id |-> nextUserId,
                   trip_id |-> nextTripId]
  /\ nextUserId' = nextUserId + 1
  /\ nextTripId' = nextTripId + 1
  /\ UNCHANGED <<user_trips, nextUserTripId>>

(***************************************************************************)
(* Calls of the serialisers                                                *)
(***************************************************************************)
\* to_json of a Trip read back from the database.
SerializeTrip(t) ==
  /\ t \in trips
  /\ out' = [kind |-> "Trip.to_json", stored |-> TRUE, id |-> t.trip_id,
             json |-> Trip_to_json(LoadTrip(t))]
  /\ UNCHANGED <<users, trips, user_trips, nextUserId, nextTripId, nextUserTripId>>

\* to_json of a Trip just constructed, before it is added and committed;
\* rel is what the caller passed as user= (nothing, or a User).
SerializeNewTrip(inp, rel) ==
  /\ out' = [kind |-> "Trip.to_json", stored |-> FALSE, id |-> NULL,
             json |-> Trip_to_json(NewTrip(inp, rel))]
  /\ UNCHANGED <<users, trips, user_trips, nextUserId, nextTripId, nextUserTripId>>

\* to_json of a UserTrip read back from the database.
SerializeUserTrip(ut) ==
  /\ ut \in user_trips
  /\ out' = [kind |-> "UserTrip.to_json", id |-> ut.user_trip_id,
             json |-> UserTrip_to_json(LoadUserTrip(ut))]
  /\ UNCHANGED <<users, trips, user_trips, nextUserId, nextTripId, nextUserTripId>>

Next ==
  \/ \E p \in Profiles : CreateUser(p)
  \/ \E u \in users, p \in Profiles : EditProfile(u, p)
  \/ \E u \in users : DeleteUser(u)
  \/ \E inp \in TripInputs, driver \in 1..nextUserId : CreateTrip(inp, driver)
  \/ \E t \in trips, n \in PassengerCounts : UpdateTrip(t, n)
  \/ \E t \in trips : DeleteTrip(t)
  \/ \E tid \in 1..nextTripId, uid \in 1..nextUserId : CreateUserTrip(tid, uid)
  \/ \E ut \in user_trips : DeleteUserTrip(ut)
  \/ example_data
  \/ \E t \in trips : SerializeTrip(t)
  \/ \E inp \in TripInputs \cup {SeedTrip}, rel \in {{}} \cup {{u} : u \in users} :
       SerializeNewTrip(inp, rel)
  \/ \E ut \in user_trips : SerializeUserTrip(ut)

Spec == Init /\ [][Next]_vars

(***************************************************************************)
(* Properties                                                              *)
(***************************************************************************)
IsDigit(c) == \E i \in 1..10 : DigitChars[i] = c

IsYMD(s) ==
  /\ Len(s) = 10
  /\ s[5] = "-" /\ s[8] = "-"
  /\ \A i \in {1, 2, 3, 4, 6, 7, 9, 10} : IsDigit(s[i])

\* C1: every call of Trip.to_json returns a mapping whose dateOfTrip is a string
\* of the form YYYY-MM-DD, whether date_of_trip was given as a date or as text
\* and whether the Trip was read back from the database or just constructed.
TripJsonDateIsYMD ==
  out.kind = "Trip.to_json" =>
    out.json.raised = "none" /\ IsYMD(out.json.dateOfTrip)

\* C2: UserTrip.to_json gives userFirstName and userProfileImg of the passenger
\* (the User of UserTrip.user_id) and driverFirstName and driverProfileImg of the
\* driver (the User of the Trip's user_id), never the other way round.
UserTripJsonDenormalized ==
  out.kind = "UserTrip.to_json" =>
    \E ut \in user_trips, t \in trips, passenger \in users, driver \in users :
      /\ ut.user_trip_id = out.id
      /\ t.trip_id = ut.trip_id
      /\ passenger.user_id = ut.user_id
      /\ driver.user_id = t.user_id
      /\ out.json.raised = "none"
      /\ out.json.userFirstName = passenger.fname
      /\ out.json.userProfileImg = passenger.user_profile_img
      /\ out.json.driverFirstName = driver.fname
      /\ out.json.driverProfileImg = driver.user_profile_img

\* A UserTrip was serialised whose passenger and driver are two Users of
\* different first names and images.
UserTripJsonTwoUsers ==
  /\ out.kind = "UserTrip.to_json"
  /\ \E ut \in user_trips, t \in trips, passenger \in users, driver \in users :
       /\ ut.user_trip_id = out.id
       /\ t.trip_id = ut.trip_id
       /\ passenger.user_id = ut.user_id
       /\ driver.user_id = t.user_id
       /\ passenger.user_id # driver.user_id
       /\ passenger.fname # driver.fname
       /\ passenger.user_profile_img # driver.user_profile_img

\* C3: after two calls of example_data in a row the users table and the trips
\* table each hold two rows more than before the first call, and the new rows
\* have two new identifiers each.
SeedTwiceAddsTwoRows ==
  (out.kind = "example_data" /\ out.run = 2) =>
    /\ Cardinality(users) = out.users0 + 2
    /\ Cardinality(trips) = out.trips0 + 2
    /\ Cardinality(UserIds(users) \ out.ids0) = 2
    /\ Cardinality(TripIds(trips) \ out.tids0) = 2

\* C4: a step that creates or deletes a UserTrip changes no Trip row and no
\* User row; num_passengers stays what it was.
EnrollLeavesTripsAlone ==
  [][user_trips' # user_trips => (trips' = trips /\ users' = users)]_vars

\* A Trip has passengers enrolled and its num_passengers is not their number.
PassengerCountDiffers ==
  \E t \in trips :
    /\ \E ut \in user_trips : ut.trip_id = t.trip_id
    /\ t.num_passengers # Cardinality({ut \in user_trips : ut.trip_id = t.trip_id})

UniqueUserIds == \A u, v \in users : u.user_id = v.user_id => u = v

\* A step keeps the user_ids of the rows it keeps: it leaves the identifiers as
\* they are, adds one row under a new identifier, or removes one row.
UserIdsKept ==
  \/ UserIds(users') = UserIds(users) /\ Cardinality(users') = Cardinality(users)
  \/ \E r \in users' : r.user_id \notin UserIds(users) /\ users' = users \cup {r}
  \/ \E u \in users : users' = users \ {u}

\* C5: no two existing Users share a user_id, and no step (creation, profile
\* edit, deletion) changes the user_id of a User that stays.
UserIdUniqueAndStable == []UniqueUserIds /\ [][UserIdsKept]_vars

\* A profile was edited in a table of two Users, after a third was deleted.
EditedAmongTwoUsers ==
  /\ out.kind = "update"
  /\ Cardinality(users) = 2
  /\ nextUserId > 3

\* C6: Trip.to_json of a stored Trip gives the driver's fname and
\* user_profile_img as userFirstName and userProfileImg, the Trip's user_id as
\* userAsDriver, and the stored origin, destination, max_passengers and
\* num_passengers.
TripJsonFlattensDriver ==
  (out.kind = "Trip.to_json" /\ out.stored) =>
    \E t \in trips, driver \in users :
      /\ t.trip_id = out.id
      /\ driver.user_id = t.user_id
      /\ out.json.raised = "none"
      /\ out.json.userFirstName = driver.fname
      /\ out.json.userProfileImg = driver.user_profile_img
      /\ out.json.userAsDriver = t.user_id
      /\ out.json.origin = t.origin
      /\ out.json.destination = t.destination
      /\ out.json.maxPassengers = t.max_passengers
      /\ out.json.numPassengers = t.num_passengers

\* The scenario: Jo's trip from San Francisco to Los Angeles, 3 seats, 1 taken.
TripJsonScenario ==
  /\ out.kind = "Trip.to_json" /\ out.stored
  /\ out.json.raised = "none"
  /\ out.json.userFirstName = "Jo"
  /\ out.json.origin = "San Francisco"
  /\ out.json.destination = "Los Angeles"
  /\ out.json.maxPassengers = 3
  /\ out.json.numPassengers = 1

\* C7: every stored Trip has num_passengers <= max_passengers.
PassengersWithinMax == \A t \in trips : t.num_passengers <= t.max_passengers

\* Every foreign key names an existing row.
ReferencesExist ==
  /\ \A t \in trips : \E u \in users : u.user_id = t.user_id
  /\ \A ut \in user_trips : \E u \in users : u.user_id = ut.user_id
  /\ \A ut \in user_trips : \E t \in trips : t.trip_id = ut.trip_id

StillReferenced(u) ==
  \/ \E t \in trips : t.user_id = u.user_id
  \/ \E ut \in user_trips : ut.user_id = u.user_id

\* A step removes no User that a Trip or a UserTrip references, and a delete of
\* such a User raises and changes no table.
DeleteUserRefused ==
  \A u \in users :
    StillReferenced(u) =>
      /\ \E v \in users' : v.user_id = u.user_id
      /\ (out'.kind = "delete" /\ out'.table = "users" /\ out'.id = u.user_id) =>
           /\ out'.status = "IntegrityError"
           /\ UNCHANGED <<users, trips, user_trips>>

\* C8: a User that a Trip or a UserTrip references cannot be deleted (the delete
\* fails and no table changes), so every foreign key always names an existing row.
UserDeleteRestricted == []ReferencesExist /\ [][DeleteUserRefused]_vars

\* The delete of a User who is only a passenger was refused.
PassengerDeleteRefused ==
  /\ out.kind = "delete" /\ out.table = "users" /\ out.status = "IntegrityError"
  /\ \E ut \in user_trips : ut.user_id = out.id
  /\ ~ \E t \in trips : t.user_id = out.id

Ascending(s, key) == \A i, j \in 1..Len(s) : i < j => s[i][key] < s[j][key]

Holds(s, rows) == Len(s) = Cardinality(rows) /\ {s[i] : i \in 1..Len(s)} = rows

\* C9: User.trips holds exactly the Trips of that driver in ascending trip_id
\* order; User.user_trips and Trip.user_trips hold exactly the UserTrips that
\* reference the User or the Trip, in ascending user_trip_id order.
BackCollectionsOrdered ==
  /\ \A u \in users :
       /\ Ascending(User_trips(u.user_id), "trip_id")
       /\ Holds(User_trips(u.user_id), {t \in trips : t.user_id = u.user_id})
       /\ Ascending(User_user_trips(u.user_id), "user_trip_id")
       /\ Holds(User_user_trips(u.user_id), {ut \in user_trips : ut.user_id = u.user_id})
  /\ \A t \in trips :
       /\ Ascending(Trip_user_trips(t.trip_id), "user_trip_id")
       /\ Holds(Trip_user_trips(t.trip_id), {ut \in user_trips : ut.trip_id = t.trip_id})

\* A User drives two Trips, the later of which got the third identifier.
DriverOfTwoTrips ==
  /\ \E u \in users :
       /\ Cardinality({t \in trips : t.user_id = u.user_id}) = 2
       /\ \E t \in trips : t.user_id = u.user_id /\ t.trip_id = 3

====
